---- MODULE Spec2Model ----
(***************************************************************************)
(* The Book library of the Django REST Framework + React demo.             *)
(*                                                                         *)
(* Backend (README, "Backend Implementation Details"): the Book model, the *)
(* BookSerializer (a ModelSerializer over all fields), the BookViewSet (a  *)
(* ModelViewSet), the DefaultRouter registration under api/, and the       *)
(* REST_FRAMEWORK settings (JWTAuthentication, AllowAny).  The classes the *)
(* source names are modelled by what they do in the versions the README    *)
(* pins (Django 5.2.7, djangorestframework 3.16.1, simplejwt 5.5.1).       *)
(*                                                                         *)
(* Frontend (myfrontend/src/App.js): the App component, its books state,   *)
(* its mount effect and its rendered list.                                 *)
(*                                                                         *)
(* Text is a sequence of one-character strings, so that trimming, date     *)
(* parsing, date formatting and the "title - author" rendering are         *)
(* computed, not assumed.                                                  *)
(***************************************************************************)
EXTENDS Integers, Sequences, FiniteSets, TLC

VARIABLES
    rows,        \* the myApp_book table: a set of rows [id, title, author, published_date]
    sqlite_seq,  \* SQLite's AUTOINCREMENT sequence for the table: the largest id ever assigned
    last,        \* the last HTTP exchange of an API client: the request and its response
    created,     \* history: the number of requests answered 201 Created
    deleted,     \* history: the ids of the requests answered 204 No Content
    mounted,     \* App: whether the component has been mounted
    books,       \* App: the books state of useState([])
    dom,         \* App: the <li> items of the committed render
    fetch,       \* App: the GET 'books/' promise: idle, pending, fulfilled or rejected, with its value
    console,     \* App: what console.log has printed
    nGets        \* history: the number of GET 'books/' requests the App has issued

vars == <<rows, sqlite_seq, last, created, deleted, mounted, books, dom, fetch, console, nGets>>

apiVars == <<rows, sqlite_seq, last, created, deleted>>
appVars == <<mounted, books, dom, fetch, console, nGets>>

----------------------------------------------------------------------------
(* Bounds *)

\* The number of rows ever inserted (caps the AUTOINCREMENT sequence).
MaxCreates == 2

----------------------------------------------------------------------------
(* Text *)

Digits == <<"0", "1", "2", "3", "4", "5", "6", "7", "8", "9">>

IsDigit(c) == \E i \in 1..10 : Digits[i] = c

DigitVal(c) == (CHOOSE i \in 1..10 : Digits[i] = c) - 1

IsSpace(c) == c = " "

RECURSIVE LStrip(_)
LStrip(s) == IF s # <<>> /\ IsSpace(Head(s)) THEN LStrip(Tail(s)) ELSE s

RECURSIVE RStrip(_)
RStrip(s) ==
    IF s # <<>> /\ IsSpace(s[Len(s)]) THEN RStrip(SubSeq(s, 1, Len(s) - 1)) ELSE s

\* str.strip()
Strip(s) == RStrip(LStrip(s))

\* str.split(sep) for a one-character separator
RECURSIVE Split(_, _)
Split(s, sep) ==
    IF \A i \in 1..Len(s) : s[i] # sep
    THEN <<s>>
    ELSE LET k == CHOOSE i \in 1..Len(s) : s[i] = sep /\ \A j \in 1..(i - 1) : s[j] # sep
         IN  <<SubSeq(s, 1, k - 1)>> \o Split(SubSeq(s, k + 1, Len(s)), sep)

\* int(digits) for a non-empty run of decimal digits
RECURSIVE ToInt(_)
ToInt(ds) ==
    IF ds = <<>> THEN 0 ELSE 10 * ToInt(SubSeq(ds, 1, Len(ds) - 1)) + DigitVal(ds[Len(ds)])

\* '%0<width>d' % n
RECURSIVE ZeroPad(_, _)
ZeroPad(n, width) ==
    IF width = 0 THEN <<>> ELSE ZeroPad(n \div 10, width - 1) \o <<Digits[(n % 10) + 1]>>

----------------------------------------------------------------------------
(* Calendar dates *)

IsLeap(y) == (y % 4 = 0 /\ y % 100 # 0) \/ y % 400 = 0

DaysInMonth(y, m) ==
    IF m = 2 THEN (IF IsLeap(y) THEN 29 ELSE 28)
    ELSE IF m \in {4, 6, 9, 11} THEN 30 ELSE 31

\* datetime.date(year, month, day) raises ValueError outside these ranges
IsCalendarDate(y, m, d) ==
    /\ y \in 1..9999
    /\ m \in 1..12
    /\ d \in 1..DaysInMonth(y, m)

NoDate == [year |-> 0, month |-> 0, day |-> 0]

\* django.utils.dateparse.parse_date on a hyphenated string: the pattern
\* (\d{4})-(\d{1,2})-(\d{1,2})$ and then datetime.date(**kw); NoDate stands
\* for "no match" and for the ValueError of an impossible date.
parse_date(s) ==
    LET parts == Split(s, "-")
        allDigits(p) == p # <<>> /\ \A i \in 1..Len(p) : IsDigit(p[i])
    IN  IF /\ Len(parts) = 3
           /\ \A i \in 1..3 : allDigits(parts[i])
           /\ Len(parts[1]) = 4
           /\ Len(parts[2]) \in 1..2
           /\ Len(parts[3]) \in 1..2
           /\ IsCalendarDate(ToInt(parts[1]), ToInt(parts[2]), ToInt(parts[3]))
        THEN [year |-> ToInt(parts[1]), month |-> ToInt(parts[2]), day |-> ToInt(parts[3])]
        ELSE NoDate

\* datetime.date.isoformat(): YYYY-MM-DD
isoformat(d) ==
    ZeroPad(d.year, 4) \o <<"-">> \o ZeroPad(d.month, 2) \o <<"-">> \o ZeroPad(d.day, 2)

----------------------------------------------------------------------------
(* models.py: class Book(models.Model) *)

max_length == 100

FieldNames == {"title", "author", "published_date"}

CharFields == {"title", "author"}

\* Mutant: the sequence is read but never advanced.
NextRowIdNoIncrement(table, seq) == seq

\* The id column of a model that declares no primary key: an AutoField, which
\* Django's SQLite backend creates as "integer PRIMARY KEY AUTOINCREMENT".
\* The next id is one more than the largest id the table ever held.
NextRowId(table, seq) == seq + 1

\* Book.objects.get(pk = pk): the rows matching the key
GetByPk(table, pk) == {r \in table : r.id = pk}

\* Model.save() of a new instance: INSERT
Insert(table, seq, values) ==
    table \cup {[id |-> NextRowId(table, seq),
                 title |-> values.title,
                 author |-> values.author,
                 published_date |-> values.published_date]}

\* Model.save() of a loaded instance: UPDATE ... WHERE id = instance.id
SaveInstance(table, instance, values) ==
    {r \in table : r.id # instance.id}
        \cup {[id |-> instance.id,
               title |-> IF "title" \in DOMAIN values THEN values.title ELSE instance.title,
               author |-> IF "author" \in DOMAIN values THEN values.author ELSE instance.author,
               published_date |-> IF "published_date" \in DOMAIN values
                                  THEN values.published_date
                                  ELSE instance.published_date]}

\* Mutant: a DELETE without its WHERE clause.
DeleteEveryRow(table, instance) == {}

\* Model.delete(): DELETE ... WHERE id = instance.id
DeleteInstance(table, instance) == {r \in table : r.id # instance.id}

----------------------------------------------------------------------------
(* serializers.py: class BookSerializer(serializers.ModelSerializer),      *)
(* fields = '__all__': id (read only), title and author (CharField built   *)
(* from the model field: required, max_length, no blank), published_date   *)
(* (DateField, required).                                                  *)

\* Mutant: CharField(allow_blank = True).
allow_blank_on == TRUE

\* Mutant: CharField(trim_whitespace = False).
trim_whitespace_off == FALSE

\* CharField defaults a ModelSerializer keeps for a models.CharField that is
\* neither blank = True nor null = True
allow_blank == FALSE

trim_whitespace == TRUE

\* CharField.to_internal_value
CharToInternal(data) == IF trim_whitespace THEN Strip(data) ELSE data

\* CharField.run_validation: "ok" or the code of the error
CharFieldCheck(data) ==
    IF data = <<>> \/ (trim_whitespace /\ Strip(data) = <<>>)
    THEN (IF allow_blank THEN "ok" ELSE "blank")
    ELSE IF Len(CharToInternal(data)) > max_length THEN "max_length"
    ELSE "ok"

\* DateField.to_internal_value with the ISO 8601 input format
DateFieldCheck(data) == IF parse_date(data) = NoDate THEN "invalid" ELSE "ok"

\* Field.validate_empty_values for a key the payload lacks: skipped on a
\* partial update, an error otherwise
MissingFieldCheck(partial) == IF partial THEN "skip" ELSE "required"

FieldCheck(payload, f, partial) ==
    IF f \notin DOMAIN payload THEN MissingFieldCheck(partial)
    ELSE IF f \in CharFields THEN CharFieldCheck(payload[f])
    ELSE DateFieldCheck(payload[f])

\* Serializer.errors after is_valid(): every offending field with its code
Errors(payload, partial) ==
    [f \in {g \in FieldNames : FieldCheck(payload, g, partial) \notin {"ok", "skip"}}
        |-> FieldCheck(payload, f, partial)]

is_valid(payload, partial) == DOMAIN Errors(payload, partial) = {}

\* Serializer.validated_data: the internal value of every field supplied
ValidatedData(payload, partial) ==
    [f \in {g \in FieldNames : FieldCheck(payload, g, partial) = "ok"}
        |-> IF f \in CharFields THEN CharToInternal(payload[f]) ELSE parse_date(payload[f])]

\* Serializer.to_representation: the JSON object of a row
ToRepresentation(r) ==
    [id |-> r.id,
     title |-> r.title,
     author |-> r.author,
     published_date |-> isoformat(r.published_date)]

\* ListSerializer.to_representation over Book.objects.all(): the model sets
\* no ordering, so the rows come in whatever order the database yields them.
ListRepresentations(table) ==
    {[i \in 1..Cardinality(table) |-> ToRepresentation(f[i])] :
        f \in {g \in [1..Cardinality(table) -> table] :
                  \A i, j \in 1..Cardinality(table) : i # j => g[i] # g[j]}}

----------------------------------------------------------------------------
(* settings.py: REST_FRAMEWORK *)

\* The tokens that verify: signed with the project's key, not expired, and
\* naming an active user.
ValidTokens == {"valid"}

\* DEFAULT_AUTHENTICATION_CLASSES = [JWTAuthentication].  header is the
\* Authorization header split on whitespace (<<>> when the request has none).
\* JWTAuthentication.authenticate: no header, or one of another type, leaves
\* the request anonymous; a Bearer header must hold two parts and a token
\* that verifies, or AuthenticationFailed is raised.
Authenticate(header) ==
    IF header = <<>> THEN "anonymous"
    ELSE IF header[1] # "Bearer" THEN "anonymous"
    ELSE IF Len(header) # 2 THEN "failed"
    ELSE IF header[2] \in ValidTokens THEN "user"
    ELSE "failed"

\* Mutant: DEFAULT_PERMISSION_CLASSES = [IsAuthenticated].
IsAuthenticated(user) == user = "user"

\* DEFAULT_PERMISSION_CLASSES = [AllowAny]: AllowAny.has_permission
HasPermission(user) == TRUE

\* APIView.initial: perform_authentication, then check_permissions.  0 lets
\* the request through; 401 answers a failed authentication, and a refused
\* anonymous request; 403 answers a refused user.
Initial(header) ==
    IF Authenticate(header) = "failed" THEN 401
    ELSE IF ~HasPermission(Authenticate(header))
         THEN (IF Authenticate(header) = "anonymous" THEN 401 ELSE 403)
    ELSE 0

----------------------------------------------------------------------------
(* urls.py: the project's urlpatterns and the app's router *)

\* myApp/urls.py: router.register('books', BookViewSet); router.urls.  rest
\* is the path after api/, as its segments.
RouterUrls(rest) ==
    IF rest = <<>> THEN "api-root"
    ELSE IF rest[1] = "books" /\ Len(rest) = 1 THEN "books-list"
    ELSE IF rest[1] = "books" /\ Len(rest) = 2 THEN "books-detail"
    ELSE "404"

\* myProject/urls.py: path('admin/', ...), path('api/', include('myApp.urls'))
Resolve(path) ==
    IF path = <<>> THEN "404"
    ELSE IF path[1] = "admin" THEN "admin"
    ELSE IF path[1] = "api" THEN RouterUrls(Tail(path))
    ELSE "404"

\* The viewset action a DefaultRouter route binds to each method
Handler(method, path) ==
    LET route == Resolve(path)
    IN  IF route = "books-list"
        THEN (IF method = "GET" THEN "list"
              ELSE IF method = "POST" THEN "create"
              ELSE "method_not_allowed")
        ELSE IF route = "books-detail"
        THEN (IF method = "GET" THEN "retrieve"
              ELSE IF method = "PUT" THEN "update"
              ELSE IF method = "PATCH" THEN "partial_update"
              ELSE IF method = "DELETE" THEN "destroy"
              ELSE "method_not_allowed")
        ELSE route

BookHandlers ==
    {"list", "create", "retrieve", "update", "partial_update", "destroy",
     "method_not_allowed"}

----------------------------------------------------------------------------
(* Requests *)

NoBody == <<>>

Request(method, path, auth, body) ==
    [method |-> method, path |-> path, auth |-> auth, body |-> body]

\* Text and dates as they arrive in a JSON body
Text_a == <<"a">>

Text_b_padded == <<" ", "b", " ">>

Text_r == <<"r">>

Text_s == <<"s">>

Date_2023_12_01 == <<"2", "0", "2", "3", "-", "1", "2", "-", "0", "1">>

Date_2023_1_5 == <<"2", "0", "2", "3", "-", "1", "-", "5">>

Date_2023_02_30 == <<"2", "0", "2", "3", "-", "0", "2", "-", "3", "0">>

\* JSON bodies with all three fields, each accepted by the serializer
FullPayloads ==
    {[title |-> Text_a, author |-> Text_r, published_date |-> Date_2023_12_01],
     [title |-> Text_b_padded, author |-> Text_s, published_date |-> Date_2023_1_5]}

\* JSON bodies the serializer of a create or a PUT rejects
BadPayloads ==
    {[title |-> <<>>, author |-> Text_r, published_date |-> Date_2023_12_01],
     [title |-> Text_a, author |-> Text_r, published_date |-> Date_2023_02_30],
     [author |-> Text_r, published_date |-> Date_2023_12_01],
     [title |-> Text_b_padded],
     [author |-> Text_s, published_date |-> Date_2023_1_5]}

Payloads == FullPayloads \cup BadPayloads

NoAuth == <<>>

\* Authorization headers: none, one of another type, a Bearer header without
\* a token, a Bearer token that verifies, and one that does not
AuthInputs ==
    {NoAuth, <<"Basic", "dXNlcg">>, <<"Bearer">>, <<"Bearer", "valid">>,
     <<"Bearer", "expired">>}

\* The ids a URL may name: every id that may be assigned, and one more
PkInputs == {Digits[i + 1] : i \in 1..(MaxCreates + 1)}

BooksPath == <<"api", "books">>

DetailPath(pk) == <<"api", "books", pk>>

RequestsWith(auths, payloads) ==
    {Request("GET", BooksPath, a, NoBody) : a \in auths}
    \cup {Request("DELETE", BooksPath, a, NoBody) : a \in auths}
    \cup {Request("POST", BooksPath, a, p) : a \in auths, p \in payloads}
    \cup {Request(m, DetailPath(pk), a, NoBody) :
             m \in {"GET", "DELETE"}, pk \in PkInputs, a \in auths}
    \cup {Request(m, DetailPath(pk), a, p) :
             m \in {"PUT", "PATCH"}, pk \in PkInputs, a \in auths, p \in payloads}
    \cup {Request("POST", <<"api", "token">>, a, NoBody) : a \in auths}
    \cup {Request("POST", <<"api", "token", "refresh">>, a, NoBody) : a \in auths}

\* The requests of clients that send no Authorization header
Requests == RequestsWith({NoAuth}, Payloads)

\* The requests of one payload under every Authorization header
AuthRequests ==
    RequestsWith(AuthInputs,
        {[title |-> Text_a, author |-> Text_r, published_date |-> Date_2023_12_01]})

\* The requests by which other clients change the collection while the App runs
WorldRequests ==
    {Request("POST", BooksPath, NoAuth, p) : p \in FullPayloads}
    \cup {Request("DELETE", DetailPath(pk), NoAuth, NoBody) : pk \in PkInputs}

----------------------------------------------------------------------------
(* views.py: class BookViewSet(viewsets.ModelViewSet) *)

NoExchange == [req |-> Request("", <<>>, <<>>, NoBody), status |-> 0, data |-> <<>>]

Respond(req, status, data) == last' = [req |-> req, status |-> status, data |-> data]

\* Mutant: a lookup that falls back to any stored row.
get_object_or_any(table, pk) ==
    IF IsDigit(pk) /\ GetByPk(table, DigitVal(pk)) # {}
    THEN GetByPk(table, DigitVal(pk))
    ELSE table

\* GenericAPIView.get_object: the row the URL's pk names, or none (Http404)
get_object(table, pk) ==
    IF IsDigit(pk) THEN GetByPk(table, DigitVal(pk)) ELSE {}

Init ==
    /\ rows = {}
    /\ sqlite_seq = 0
    /\ last = NoExchange
    /\ created = 0
    /\ deleted = {}
    /\ mounted = FALSE
    /\ books = <<>>
    /\ dom = <<>>
    /\ fetch = [state |-> "idle", status |-> 0, data |-> <<>>]
    /\ console = <<>>
    /\ nGets = 0

\* No URL pattern matches the path: Django answers 404.
Unrouted(req) ==
    /\ Resolve(req.path) = "404"
    /\ Respond(req, 404, <<>>)
    /\ UNCHANGED <<rows, sqlite_seq, created, deleted, appVars>>

\* APIView.initial refuses the request before any handler runs.
Refused(req) ==
    /\ Handler(req.method, req.path) \in BookHandlers
    /\ Initial(req.auth) # 0
    /\ Respond(req, Initial(req.auth), <<>>)
    /\ UNCHANGED <<rows, sqlite_seq, created, deleted, appVars>>

\* The route binds no action to the method: 405.
MethodNotAllowed(req) ==
    /\ Handler(req.method, req.path) = "method_not_allowed"
    /\ Initial(req.auth) = 0
    /\ Respond(req, 405, <<>>)
    /\ UNCHANGED <<rows, sqlite_seq, created, deleted, appVars>>

\* ListModelMixin.list
List(req) ==
    /\ Handler(req.method, req.path) = "list"
    /\ Initial(req.auth) = 0
    /\ \E data \in ListRepresentations(rows) : Respond(req, 200, data)
    /\ UNCHANGED <<rows, sqlite_seq, created, deleted, appVars>>

\* CreateModelMixin.create
Create(req) ==
    /\ Handler(req.method, req.path) = "create"
    /\ Initial(req.auth) = 0
    /\ IF ~is_valid(req.body, FALSE)
       THEN /\ Respond(req, 400, Errors(req.body, FALSE))
            /\ UNCHANGED <<rows, sqlite_seq, created>>
       ELSE /\ sqlite_seq < MaxCreates
            /\ rows' = Insert(rows, sqlite_seq, ValidatedData(req.body, FALSE))
            /\ sqlite_seq' = NextRowId(rows, sqlite_seq)
            /\ created' = created + 1
            /\ \E r \in rows' \ rows : Respond(req, 201, ToRepresentation(r))
    /\ UNCHANGED <<deleted, appVars>>

\* RetrieveModelMixin.retrieve
Retrieve(req) ==
    /\ Handler(req.method, req.path) = "retrieve"
    /\ Initial(req.auth) = 0
    /\ IF get_object(rows, req.path[3]) = {}
       THEN Respond(req, 404, <<>>)
       ELSE \E instance \in get_object(rows, req.path[3]) :
                Respond(req, 200, ToRepresentation(instance))
    /\ UNCHANGED <<rows, sqlite_seq, created, deleted, appVars>>

\* UpdateModelMixin.update, with partial = FALSE for PUT and TRUE for PATCH
UpdateWith(req, partial) ==
    /\ Initial(req.auth) = 0
    /\ IF get_object(rows, req.path[3]) = {}
       THEN /\ Respond(req, 404, <<>>)
            /\ UNCHANGED rows
       ELSE IF ~is_valid(req.body, partial)
       THEN /\ Respond(req, 400, Errors(req.body, partial))
            /\ UNCHANGED rows
       ELSE \E instance \in get_object(rows, req.path[3]) :
                /\ rows' = SaveInstance(rows, instance, ValidatedData(req.body, partial))
                /\ \E r \in GetByPk(rows', instance.id) :
                       Respond(req, 200, ToRepresentation(r))
    /\ UNCHANGED <<sqlite_seq, created, deleted, appVars>>

\* Mutant: PUT handled as a partial update.
UpdateAsPartial(req) ==
    /\ Handler(req.method, req.path) = "update"
    /\ UpdateWith(req, TRUE)

\* UpdateModelMixin.update
Update(req) ==
    /\ Handler(req.method, req.path) = "update"
    /\ UpdateWith(req, FALSE)

\* UpdateModelMixin.partial_update
PartialUpdate(req) ==
    /\ Handler(req.method, req.path) = "partial_update"
    /\ UpdateWith(req, TRUE)

\* DestroyModelMixin.destroy
Destroy(req) ==
    /\ Handler(req.method, req.path) = "destroy"
    /\ Initial(req.auth) = 0
    /\ IF get_object(rows, req.path[3]) = {}
       THEN /\ Respond(req, 404, <<>>)
            /\ UNCHANGED <<rows, deleted>>
       ELSE \E instance \in get_object(rows, req.path[3]) :
                /\ rows' = DeleteInstance(rows, instance)
                /\ deleted' = deleted \cup {instance.id}
                /\ Respond(req, 204, <<>>)
    /\ UNCHANGED <<sqlite_seq, created, appVars>>

Next ==
    \E req \in Requests :
        \/ Unrouted(req)
        \/ MethodNotAllowed(req)
        \/ List(req)
        \/ Create(req)
        \/ Retrieve(req)
        \/ Update(req)
        \/ PartialUpdate(req)
        \/ Destroy(req)

Spec == Init /\ [][Next]_vars

NextAuth ==
    \E req \in AuthRequests :
        \/ Unrouted(req)
        \/ Refused(req)
        \/ MethodNotAllowed(req)
        \/ List(req)
        \/ Create(req)
        \/ Retrieve(req)
        \/ Update(req)
        \/ PartialUpdate(req)
        \/ Destroy(req)

SpecAuth == Init /\ [][NextAuth]_vars

----------------------------------------------------------------------------
(* myfrontend/src/api.js and myfrontend/src/App.js *)

\* axios.create({baseURL: 'http://127.0.0.1:8000/api/'}): the path of the base URL
baseURL == <<"api">>

\* API.get('books/'): no Authorization header is configured
AppRequest == Request("GET", baseURL \o <<"books">>, NoAuth, NoBody)

\* Mutant: the item shows the title alone.
RenderTitles(bks) == [i \in 1..Len(bks) |-> [key |-> bks[i].id, text |-> bks[i].title]]

\* The <li> items of the component's return value
Render(bks) ==
    [i \in 1..Len(bks) |->
        [key |-> bks[i].id, text |-> bks[i].title \o <<" ", "-", " ">> \o bks[i].author]]

\* Mutant: the effect depends on books.
EffectDepsBooks(bks) == <<bks>>

\* The dependency array of the effect: []
EffectDeps(bks) == <<>>

\* useEffect: the effect runs after the first commit, and after a later one
\* when a dependency changed
EffectDue(isMount, prevDeps, nextDeps) ==
    isMount \/ \E i \in 1..Len(nextDeps) : prevDeps[i] # nextDeps[i]

Pending == [state |-> "pending", status |-> 0, data |-> <<>>]

\* A commit of the component with state bks: the render, then the effect
\* when due, which issues API.get('books/')
Commit(isMount, bks, settled) ==
    /\ books' = bks
    /\ dom' = Render(bks)
    /\ IF EffectDue(isMount, EffectDeps(books), EffectDeps(bks))
       THEN fetch' = Pending /\ nGets' = nGets + 1
       ELSE fetch' = settled /\ UNCHANGED nGets

\* The first render of <App />
Mount ==
    /\ ~mounted
    /\ mounted' = TRUE
    /\ Commit(TRUE, <<>>, fetch)
    /\ UNCHANGED <<apiVars, console>>

\* The server answers the App's request
Served ==
    /\ fetch.state = "pending"
    /\ IF Handler(AppRequest.method, AppRequest.path) = "list" /\ Initial(AppRequest.auth) = 0
       THEN \E data \in ListRepresentations(rows) :
                fetch' = [state |-> "response", status |-> 200, data |-> data]
       ELSE fetch' = [state |-> "response",
                      status |-> IF Initial(AppRequest.auth) # 0
                                 THEN Initial(AppRequest.auth) ELSE 404,
                      data |-> <<>>]
    /\ UNCHANGED <<apiVars, mounted, books, dom, console, nGets>>

\* The request or its response is lost: axios rejects with a network error
NetworkError ==
    /\ fetch.state \in {"pending", "response"}
    /\ fetch' = [state |-> "error", status |-> 0, data |-> <<>>]
    /\ UNCHANGED <<apiVars, mounted, books, dom, console, nGets>>

\* axios settles the promise with a 2xx response: res => setBooks(res.data)
Then ==
    /\ fetch.state = "response"
    /\ fetch.status \in 200..299
    /\ Commit(FALSE, fetch.data, [fetch EXCEPT !.state = "fulfilled"])
    /\ UNCHANGED <<apiVars, mounted, console>>

\* axios rejects: err => console.log(err)
Catch ==
    /\ \/ fetch.state = "error"
       \/ fetch.state = "response" /\ fetch.status \notin 200..299
    /\ console' = Append(console, IF fetch.state = "error" THEN 0 ELSE fetch.status)
    /\ fetch' = [fetch EXCEPT !.state = "rejected"]
    /\ UNCHANGED <<apiVars, mounted, books, dom, nGets>>

NextApp ==
    \/ Mount
    \/ Served
    \/ NetworkError
    \/ Then
    \/ Catch
    \/ \E req \in WorldRequests : Create(req) \/ Destroy(req)

SpecApp == Init /\ [][NextApp]_vars

----------------------------------------------------------------------------
(* Reading an exchange *)

OnList(x) == x.req.path = BooksPath

OnDetail(x) == Len(x.req.path) = 3 /\ SubSeq(x.req.path, 1, 2) = BooksPath

OnBooks(x) == OnList(x) \/ OnDetail(x)

PkOf(x) == DigitVal(x.req.path[3])

Ids(table) == {r.id : r \in table}

\* t is s without its leading and trailing spaces
TrimOf(s, t) ==
    /\ t = <<>> \/ (t[1] # " " /\ t[Len(t)] # " ")
    /\ \E i \in 0..Len(s) :
           /\ i + Len(t) <= Len(s)
           /\ SubSeq(s, i + 1, i + Len(t)) = t
           /\ \A k \in (1..i) \cup ((i + Len(t) + 1)..Len(s)) : s[k] = " "

\* out is YYYY-MM-DD and names the day the hyphenated text wire names
SameDay(wire, out) ==
    LET a == Split(wire, "-")
        b == Split(out, "-")
    IN  /\ Len(a) = 3 /\ Len(b) = 3
        /\ Len(b[1]) = 4 /\ Len(b[2]) = 2 /\ Len(b[3]) = 2
        /\ \A i \in 1..3 : ToInt(a[i]) = ToInt(b[i])

\* The JSON object book carries the values of every field the body supplies
Carries(book, body) ==
    /\ "title" \in DOMAIN body => TrimOf(body.title, book.title)
    /\ "author" \in DOMAIN body => TrimOf(body.author, book.author)
    /\ "published_date" \in DOMAIN body => SameDay(body.published_date, book.published_date)

\* A create answered 201 is followed at once by a retrieve of the id it returned
CreateThenRetrieve ==
    /\ last.req.method = "POST" /\ OnList(last) /\ last.status = 201
    /\ last'.req.method = "GET" /\ OnDetail(last') /\ PkOf(last') = last.data.id

----------------------------------------------------------------------------
(* Properties *)

\* C1 as stated: a create followed by a retrieve of the returned id yields the
\* record the create returned, and its three values are those of the payload,
\* character for character.
C1_RoundTripVerbatim ==
    [][CreateThenRetrieve =>
           /\ last'.status = 200
           /\ last'.data = last.data
           /\ last'.data.title = last.req.body.title
           /\ last'.data.author = last.req.body.author
           /\ last'.data.published_date = last.req.body.published_date]_vars

\* C1 as amended: a create followed by a retrieve of the returned id yields the
\* record the create returned; its title and author are the payload's without
\* their leading and trailing whitespace, and its published_date is the
\* payload's day written YYYY-MM-DD.
C1_RoundTrip ==
    [][CreateThenRetrieve =>
           /\ last'.status = 200
           /\ last'.data = last.data
           /\ Carries(last'.data, last.req.body)]_vars

C1_Witness ==
    /\ last.req.method = "GET" /\ OnDetail(last) /\ last.status = 200
    /\ last.data.id = 1 /\ created = 1
    /\ last.data.title = <<"b">>
    /\ last.data.published_date = <<"2", "0", "2", "3", "-", "0", "1", "-", "0", "5">>

\* C2: the stored Books have pairwise distinct ids in every reachable state;
\* a list returns one record per stored Book, no two with the same id, and,
\* as long as nothing was deleted, as many records as creates succeeded.
C2_UniqueIds ==
    /\ \A r1, r2 \in rows : r1.id = r2.id => r1 = r2
    /\ (last.req.method = "GET" /\ OnList(last) /\ last.status = 200) =>
           /\ Len(last.data) = created - Cardinality(deleted)
           /\ deleted = {} => Len(last.data) = created
           /\ \A i, j \in 1..Len(last.data) : i # j => last.data[i].id # last.data[j].id

C2_Witness ==
    /\ last.req.method = "GET" /\ OnList(last) /\ last.status = 200
    /\ deleted = {} /\ created = 2 /\ Len(last.data) = 2

\* C3: once a delete of an id succeeded, every later retrieve of that id is
\* answered 404 and no later list holds a record with that id; the delete
\* itself removes that record and leaves every other record as it was.
C3_DeleteIsFinal ==
    [][/\ (last'.req.method = "GET" /\ OnDetail(last') /\ PkOf(last') \in deleted)
            => last'.status = 404
       /\ (last'.req.method = "GET" /\ OnList(last') /\ last'.status = 200)
            => \A i \in 1..Len(last'.data) : last'.data[i].id \notin deleted
       /\ (last'.req.method = "DELETE" /\ OnDetail(last') /\ last'.status = 204)
            => /\ PkOf(last') \notin Ids(rows')
               /\ rows' = {r \in rows : r.id # PkOf(last')}
               /\ PkOf(last') \in deleted']_vars

C3_Witness ==
    /\ last.req.method = "GET" /\ OnDetail(last) /\ last.status = 404
    /\ PkOf(last) \in deleted
    /\ rows # {} /\ created = MaxCreates

\* C4 as stated: a PUT on an existing id whose payload supplies only some of
\* the fields succeeds, changes exactly the supplied fields, and leaves the id
\* and every other record unchanged.
C4_PutMerges ==
    [][(/\ last'.req.method = "PUT" /\ OnDetail(last')
        /\ PkOf(last') \in Ids(rows)
        /\ DOMAIN last'.req.body # FieldNames
        /\ \A f \in DOMAIN last'.req.body : FieldCheck(last'.req.body, f, TRUE) = "ok")
           => /\ last'.status = 200
              /\ \E old \in rows, new \in rows' :
                     /\ old.id = PkOf(last') /\ new.id = old.id
                     /\ Carries(ToRepresentation(new), last'.req.body)
                     /\ \A f \in FieldNames \ DOMAIN last'.req.body : new[f] = old[f]
                     /\ rows' \ {new} = rows \ {old}]_vars

\* C4 as amended: a PUT on an existing id whose payload lacks a field is
\* answered 400 with every missing field reported as required, and changes
\* nothing; a PUT answered 200 carries all three fields, sets them, and leaves
\* the id and every other record unchanged.  Only a PATCH answered 200 changes
\* exactly the fields supplied.
C4_PutReplaces ==
    [][(last'.req.method \in {"PUT", "PATCH"} /\ OnDetail(last') /\ PkOf(last') \in Ids(rows))
           => /\ (last'.req.method = "PUT" /\ DOMAIN last'.req.body # FieldNames)
                    => /\ last'.status = 400
                       /\ \A f \in FieldNames \ DOMAIN last'.req.body :
                              f \in DOMAIN last'.data /\ last'.data[f] = "required"
                       /\ rows' = rows
              /\ last'.status = 200
                    => /\ last'.req.method = "PUT" => DOMAIN last'.req.body = FieldNames
                       /\ last'.data.id = PkOf(last')
                       /\ \E old \in rows, new \in rows' :
                              /\ old.id = PkOf(last') /\ new.id = old.id
                              /\ last'.data = ToRepresentation(new)
                              /\ Carries(last'.data, last'.req.body)
                              /\ \A f \in FieldNames \ DOMAIN last'.req.body : new[f] = old[f]
                              /\ rows' \ {new} = rows \ {old}]_vars

C4_Witness ==
    /\ last.req.method = "PUT" /\ OnDetail(last) /\ last.status = 400
    /\ DOMAIN last.req.body = {"title"}
    /\ DOMAIN last.data = {"author", "published_date"}
    /\ \E r \in rows : r.id = PkOf(last) /\ r.title = <<"a">>

\* C5: a create whose payload lacks a required field or has an empty title is
\* answered 400 with each offending field named, and the stored records are
\* the same after the request as before it.
C5_InvalidCreateRejected ==
    [][(/\ last'.req.method = "POST" /\ OnList(last')
        /\ \/ DOMAIN last'.req.body # FieldNames
           \/ last'.req.body.title = <<>>)
           => /\ last'.status = 400
              /\ \A f \in FieldNames \ DOMAIN last'.req.body : f \in DOMAIN last'.data
              /\ ("title" \in DOMAIN last'.req.body /\ last'.req.body.title = <<>>)
                    => "title" \in DOMAIN last'.data
              /\ rows' = rows
              /\ sqlite_seq' = sqlite_seq]_vars

C5_Witness ==
    /\ last.req.method = "POST" /\ OnList(last) /\ last.status = 400
    /\ "title" \in DOMAIN last.req.body /\ last.req.body.title = <<>>
    /\ DOMAIN last.data = {"title"}
    /\ Cardinality(rows) = 1

\* C6: a retrieve, an update or a delete of an id that is not stored (never
\* created, or deleted) is answered 404 and leaves the store as it was; an
\* update of such an id creates no record.
C6_UnknownIdNotFound ==
    [][(/\ last'.req.method \in {"GET", "PUT", "PATCH", "DELETE"} /\ OnDetail(last')
        /\ PkOf(last') \notin Ids(rows))
           => /\ last'.status = 404
              /\ rows' = rows
              /\ sqlite_seq' = sqlite_seq]_vars

C6_Witness ==
    /\ last.req.method = "PUT" /\ OnDetail(last) /\ last.status = 404
    /\ last.req.body \in FullPayloads
    /\ PkOf(last) \in deleted
    /\ rows # {}

\* C7 as stated: POST /api/token/ is dispatched to a handler that answers with
\* a token pair, and POST /api/token/refresh/ to one that answers with a new
\* access token.
C7_TokenRoutes ==
    (/\ last.req.method = "POST"
     /\ last.req.path \in {<<"api", "token">>, <<"api", "token", "refresh">>})
        => last.status = 200

\* C8 as stated: no request to /api/books/ is answered with an authentication
\* or permission error, whatever credentials it carries or omits.
C8_NeverRefused == OnBooks(last) => last.status \notin {401, 403}

\* C8 as amended: a request to /api/books/ that carries no Authorization
\* header, a header of another type than Bearer, or a Bearer token that
\* verifies is never answered 401 or 403, and no request is answered 403; a
\* request whose Bearer header is malformed or whose token does not verify is
\* answered 401.
C8_AnonymousServed ==
    OnBooks(last) =>
        /\ last.status # 403
        /\ (\/ last.req.auth = <<>>
            \/ last.req.auth[1] # "Bearer"
            \/ last.req.auth = <<"Bearer", "valid">>) => last.status # 401
        /\ (/\ last.req.auth # <<>>
            /\ last.req.auth[1] = "Bearer"
            /\ last.req.auth # <<"Bearer", "valid">>) => last.status = 401

C8_Witness ==
    /\ last.req.method = "DELETE" /\ OnDetail(last) /\ last.status = 204
    /\ last.req.auth = <<>>

\* C9: a mounted App has issued exactly one GET 'books/', at mount; no render,
\* failure or change of the server's collection makes it issue another.
C9_OneFetch == nGets = (IF mounted THEN 1 ELSE 0)

C9_Witness ==
    /\ fetch.state = "fulfilled" /\ nGets = 1
    /\ Len(books) = 1
    /\ \A r \in rows : r.id # books[1].id
    /\ rows # {}

\* C10: the list shows one item "title - author" per record of books, in
\* order; books is empty until the fetch is fulfilled and is the response's
\* data from then on; a failed fetch is logged once, leaves books empty and
\* shows nothing.
C10_ListMirrorsBooks ==
    /\ Len(dom) = Len(books)
    /\ \A i \in 1..Len(books) :
           /\ dom[i].key = books[i].id
           /\ dom[i].text = books[i].title \o <<" ", "-", " ">> \o books[i].author
    /\ fetch.state # "fulfilled" => books = <<>>
    /\ fetch.state = "fulfilled" => books = fetch.data
    /\ fetch.state = "rejected" => dom = <<>> /\ Len(console) = 1
    /\ fetch.state # "rejected" => console = <<>>

C10_Witness ==
    /\ fetch.state = "fulfilled"
    /\ Len(dom) = 2
    /\ dom[1].key = 2
    /\ dom[1].text = <<"b", " ", "-", " ", "s">>

====
